---- MODULE Spec2Model ----
(***************************************************************************)
(* Model of src/script.js, a browser radio player: the playback state      *)
(* machine (togglePlayPause, switchStation, playAudio, stopAudio), the     *)
(* four periodic activities (progress interval, peak sampler, render       *)
(* frame, API re-poll), the track reconciler (updateNowPlayingInfo) and    *)
(* the progress display (updateProgress, formatTime).                      *)
(*                                                                         *)
(* Every handler of the script runs to completion on the single UI thread, *)
(* so each handler is one action.  A handler is written as a function on   *)
(* the record Cur of all variables, which lets a handler call another the  *)
(* way the script does (switchStation calls stopAudio, then playAudio).    *)
(* An await splits a function in two: the part up to the await, and the    *)
(* continuation that the browser runs when the promise settles.            *)
(*                                                                         *)
(* The browser is the environment: it owns the timer tables, settles the   *)
(* promises of fetch, AudioContext.resume and HTMLMediaElement.play,       *)
(* fires the audio element's error event and the media-session actions,    *)
(* and advances the wall clock.  Writes to the DOM that no handler reads   *)
(* and no property mentions (icons, spinner, artwork, button classes) are  *)
(* not variables of the model.                                             *)
(***************************************************************************)
EXTENDS Integers, Sequences, FiniteSets, TLC

\* ------------------------------------------------------------ constants

TIME_LAG_BUFFER == 40

BAR_WIDTH == 2

BAR_SPACING == 1

STEP == BAR_WIDTH + BAR_SPACING

\* visualizerCanvas.width and .height come from the page, not the script.
VIS_W == 6

VIS_H == 2

TOTAL_BARS == VIS_W \div STEP

\* ------------------------------------------------------------ bounds

\* playAudio calls that may be awaiting a promise at the same time.
MaxCalls == 2

\* fetchNowPlayingInfo calls that may be awaiting fetchData at the same time.
MaxFetch == 2

\* Render-frame callbacks the browser may hold at the same time.
MaxFrames == 2

\* Seconds the wall clock may advance in one behaviour.
MaxTicks == 2

\* The wall-clock seconds a behaviour of SpecRecon may start at.
MinNow == 38

MaxNow == 90

\* The largest of the consecutive durations SpecFormat formats.
MaxSeconds == 125

\* The most station entries a payload of SpecStations lists.
MaxStations == 3

\* ------------------------------------------------------------ values

\* null and undefined of the script.
Null == "null"

\* A numeric handle that is null (timer ids are positive).
NoId == 0

Max(a, b) == IF a >= b THEN a ELSE b

Min(a, b) == IF a <= b THEN a ELSE b

\* JavaScript's %: the remainder has the sign of the dividend.
JsRem(a, b) == IF a >= 0 THEN a % b ELSE 0 - ((0 - a) % b)

DigitChar(d) == <<"0", "1", "2", "3", "4", "5", "6", "7", "8", "9">>[d + 1]

RECURSIVE NatToString(_)
NatToString(n) ==
    IF n < 10 THEN <<DigitChar(n)>>
    ELSE NatToString(n \div 10) \o <<DigitChar(n % 10)>>

\* Number.prototype.toString for an integer.
IntToString(n) == IF n < 0 THEN <<"-">> \o NatToString(0 - n) ELSE NatToString(n)

\* String.prototype.padStart(2, '0').
PadStart2(str) == IF Len(str) < 2 THEN <<"0">> \o str ELSE str

\* formatTime without the padStart of line 83.
formatTime_NoPad(totalSeconds) ==
    LET minutes == totalSeconds \div 60
        seconds == JsRem(totalSeconds, 60)
    IN  IntToString(minutes) \o <<":">> \o IntToString(seconds)

formatTime(totalSeconds) ==
    LET minutes == totalSeconds \div 60
        seconds == JsRem(totalSeconds, 60)
    IN  IntToString(minutes) \o <<":">> \o PadStart2(IntToString(seconds))

\* ------------------------------------------------------------ API data

\* The stations of the API payload: one with a listen_url, one with only a
\* default mount, one with no resolvable URL.
ApiStations ==
    << [shortcode |-> "s1", listen_url |-> "u1", mounts |-> <<>>],
       [shortcode |-> "s2", listen_url |-> "",
        mounts |-> << [url |-> "m2a", is_default |-> FALSE],
                      [url |-> "m2", is_default |-> TRUE] >>],
       [shortcode |-> "s3", listen_url |-> "",
        mounts |-> << [url |-> "m3", is_default |-> FALSE] >>] >>

\* Array.prototype.find on the mounts: the first default mount's url, or
\* undefined.
DefaultMountUrl(mounts) ==
    LET idx == {i \in 1..Len(mounts) : mounts[i].is_default}
    IN  IF idx = {} THEN Null
        ELSE mounts[CHOOSE i \in idx : \A j \in idx : i <= j].url

Truthy(str) == str # "" /\ str # Null

\* Line 368 with the operands of || exchanged.
ListenUrl_PrefersMount(st) ==
    IF Truthy(DefaultMountUrl(st.mounts)) THEN DefaultMountUrl(st.mounts)
    ELSE st.listen_url

\* Line 368: station.listen_url || mounts.find(m => m.is_default)?.url.
ListenUrl(st) ==
    IF Truthy(st.listen_url) THEN st.listen_url ELSE DefaultMountUrl(st.mounts)

RECURSIVE FilterUrl(_)
FilterUrl(list) ==
    IF list = <<>> THEN <<>>
    ELSE (IF Truthy(Head(list).url) THEN <<Head(list)>> ELSE <<>>)
         \o FilterUrl(Tail(list))

extractStations(stations) ==
    FilterUrl([i \in 1..Len(stations) |->
                 [shortcode |-> stations[i].shortcode,
                  url |-> ListenUrl(stations[i])]])

\* A track of the payload; present = FALSE is an absent (null) track.
Track(p, d, song) ==
    [present |-> TRUE, played_at |-> p, duration |-> d, song |-> song]

NoTrack == [present |-> FALSE, played_at |-> 0, duration |-> 0, song |-> Null]

\* One station's entry of the payload, without its shortcode.
Context(np, hist, nxt) ==
    [now_playing |-> np, song_history |-> hist, playing_next |-> nxt]

\* now_playing starts at 20 (lag-adjusted 60) and lasts 0, 20 or 180 s.
NowTracks == {Track(20, d, "N") : d \in {0, 20, 180}}

\* The history head starts at 0 (lag-adjusted 40) and ends before, at, or
\* after the lag-adjusted start of now_playing.
Histories == {<<>>} \cup {<<Track(0, d, "H")>> : d \in {10, 20, 30}}

NextTracks == {NoTrack, Track(40, 20, "X")}

Contexts ==
    {Context(np, h, nx) : np \in NowTracks, h \in Histories, nx \in NextTracks}
    \cup {Context(NoTrack, <<>>, NoTrack)}

\* The contexts the API serves in Spec, where the clock stands at Now0: a
\* payload without now_playing, one whose now_playing is running, and one
\* that ended more than 5 s ago.
Now0 == 70

SpecContexts ==
    { Context(NoTrack, <<>>, NoTrack),
      Context(Track(20, 180, "N"), <<>>, NoTrack),
      Context(Track(0, 20, "N"), <<>>, NoTrack) }

\* The amplitudes (0..127) a sampler tick may read from the analyser.
Amplitudes == {0, 64}

StationTags == {Null} \cup {ApiStations[i].shortcode : i \in 1..Len(ApiStations)}

\* ------------------------------------------------------------ state

VARIABLES
    initPc,                  \* init(): "loading", "ok" or "failed"
    availableStations,       \* line 24
    audioSource,             \* line 25: [created, src, paused]
    isPlaying,               \* line 26
    currentStationShortcode, \* line 27
    currentStreamUrl,        \* line 28
    intervalId,              \* line 29
    currentDuration,         \* line 31
    currentStartTime,        \* line 32
    animationFrameId,        \* line 35
    audioContext,            \* line 36: Null, "suspended" or "running"
    analyser,                \* line 37: created or not
    sourceNode,              \* line 38: created or not
    peakSamplingIntervalId,  \* line 41
    waveformHistory,         \* line 43
    songTitle,               \* the text of #song-title
    elapsedTimeEl,           \* the text of #elapsed-time
    durationTimeEl,          \* the text of #duration-time
    progressWidth,           \* the width of the progress bar, num/den percent
    canvas,                  \* what the canvas shows: "center" or "bars"
    mediaSession,            \* navigator.mediaSession: Null or "set"
    progressTimers,          \* browser: live setInterval timers of line 125
    samplerTimers,           \* browser: live setInterval timers of line 178
    frames,                  \* browser: pending requestAnimationFrame callbacks
    pollTimers,              \* browser: live setInterval timers of line 685
    fetches,                 \* fetchNowPlayingInfo calls awaiting fetchData
    calls,                   \* playAudio calls awaiting resume() or play()
    resumeQueued,            \* a resume() of the audio context is pending
    data,                    \* API: what it serves now for every station
    now,                     \* wall clock, Date.now() / 1000
    ticks,                   \* seconds the clock has advanced
    reconciledAt,            \* history: the times of the last two reconciliations
    created,                 \* history: constructor calls made, per audio object
    timingMismatch,          \* console: the last updateNowPlayingInfo logged line 417
    allStationsData,         \* line 678: the payload init() received, <<>> before
    delivered                \* history: the last call of line 454, whether its
                             \* request was issued for another station than the
                             \* one selected at the call (stale), and whether its
                             \* data was another station's (foreign)

vars ==
    << initPc, availableStations, audioSource, isPlaying,
       currentStationShortcode, currentStreamUrl, intervalId, currentDuration,
       currentStartTime, animationFrameId, audioContext, analyser, sourceNode,
       peakSamplingIntervalId, waveformHistory, songTitle, elapsedTimeEl, durationTimeEl, progressWidth, canvas,
       mediaSession, progressTimers, samplerTimers, frames, pollTimers,
       fetches, calls, resumeQueued, data, now, ticks, reconciledAt, created,
       timingMismatch, allStationsData, delivered >>

\* The state as one record, which the handlers below transform.
Cur ==
    [ initPc |-> initPc, availableStations |-> availableStations,
      audioSource |-> audioSource, isPlaying |-> isPlaying,
      currentStationShortcode |-> currentStationShortcode,
      currentStreamUrl |-> currentStreamUrl, intervalId |-> intervalId,
      currentDuration |-> currentDuration,
      currentStartTime |-> currentStartTime,
      animationFrameId |-> animationFrameId, audioContext |-> audioContext,
      analyser |-> analyser, sourceNode |-> sourceNode,
      peakSamplingIntervalId |-> peakSamplingIntervalId,
      waveformHistory |-> waveformHistory, songTitle |-> songTitle,
      elapsedTimeEl |-> elapsedTimeEl, durationTimeEl |-> durationTimeEl,
      progressWidth |-> progressWidth, canvas |-> canvas,
      mediaSession |-> mediaSession, progressTimers |-> progressTimers,
      samplerTimers |-> samplerTimers, frames |-> frames,
      pollTimers |-> pollTimers, fetches |-> fetches, calls |-> calls,
      resumeQueued |-> resumeQueued, data |-> data, now |-> now,
      ticks |-> ticks, reconciledAt |-> reconciledAt, created |-> created,
      timingMismatch |-> timingMismatch,
      allStationsData |-> allStationsData, delivered |-> delivered,
      \* the station a response of this task was requested for
      requestedFor |-> Null,
      \* play() promises rejected in this task, whose catch runs at its end
      rejected |-> FALSE ]

Commit(r) ==
    /\ initPc' = r.initPc
    /\ availableStations' = r.availableStations
    /\ audioSource' = r.audioSource
    /\ isPlaying' = r.isPlaying
    /\ currentStationShortcode' = r.currentStationShortcode
    /\ currentStreamUrl' = r.currentStreamUrl
    /\ intervalId' = r.intervalId
    /\ currentDuration' = r.currentDuration
    /\ currentStartTime' = r.currentStartTime
    /\ animationFrameId' = r.animationFrameId
    /\ audioContext' = r.audioContext
    /\ analyser' = r.analyser
    /\ sourceNode' = r.sourceNode
    /\ peakSamplingIntervalId' = r.peakSamplingIntervalId
    /\ waveformHistory' = r.waveformHistory
    /\ songTitle' = r.songTitle
    /\ elapsedTimeEl' = r.elapsedTimeEl
    /\ durationTimeEl' = r.durationTimeEl
    /\ progressWidth' = r.progressWidth
    /\ canvas' = r.canvas
    /\ mediaSession' = r.mediaSession
    /\ progressTimers' = r.progressTimers
    /\ samplerTimers' = r.samplerTimers
    /\ frames' = r.frames
    /\ pollTimers' = r.pollTimers
    /\ fetches' = r.fetches
    /\ calls' = r.calls
    /\ resumeQueued' = r.resumeQueued
    /\ data' = r.data
    /\ now' = r.now
    /\ ticks' = r.ticks
    /\ reconciledAt' = r.reconciledAt
    /\ created' = r.created
    /\ timingMismatch' = r.timingMismatch
    /\ allStationsData' = r.allStationsData
    /\ delivered' = r.delivered

\* ------------------------------------------------------------ browser

\* setInterval / requestAnimationFrame: the handle of a new entry of a timer
\* table.  A handle names one live entry; a cleared or fired handle names
\* nothing, so the least free one stands for the browser's fresh handle.
FreshId(table) ==
    CHOOSE i \in 1..(Cardinality(table) + 1) :
        /\ \A t \in table : t.id # i
        /\ \A j \in 1..(i - 1) : \E t \in table : t.id = j

\* A new entry, remembering the station it was scheduled for.
Schedule(table, id, station) ==
    table \cup {[id |-> id, station |-> station]}

\* clearInterval / cancelAnimationFrame.
Clear(table, id) == {t \in table : t.id # id}

\* HTMLMediaElement.pause(), and the part of the load algorithm that a src
\* assignment and load() share: an element that is not paused becomes
\* paused and its pending play() promises are rejected.
PauseElement(r) ==
    IF r.audioSource.paused THEN r
    ELSE [r EXCEPT !.audioSource.paused = TRUE,
                   !.rejected = @ \/ (\E i \in 1..Len(r.calls) :
                                         r.calls[i].stage = "play"),
                   !.calls = SelectSeq(@, LAMBDA c : c.stage # "play")]

\* ------------------------------------------------------------ progress

\* updateProgress without the Math.min of line 93.
updateProgress_NoClamp(r, currentTime) ==
    LET duration == r.currentDuration
    IN  IF duration > 0
        THEN [r EXCEPT !.elapsedTimeEl = formatTime(currentTime),
                       !.durationTimeEl = formatTime(duration),
                       !.progressWidth = [num |-> currentTime * 100,
                                          den |-> duration]]
        ELSE [r EXCEPT !.elapsedTimeEl = <<"0", ":", "0", "0">>,
                       !.durationTimeEl = <<"0", ":", "0", "0">>,
                       !.progressWidth = [num |-> 0, den |-> 1]]

updateProgress(r, currentTime) ==
    LET duration == r.currentDuration
        progressTime == Min(currentTime, duration)
    IN  IF duration > 0
        THEN [r EXCEPT !.elapsedTimeEl = formatTime(progressTime),
                       !.durationTimeEl = formatTime(duration),
                       !.progressWidth = [num |-> progressTime * 100,
                                          den |-> duration]]
        ELSE [r EXCEPT !.elapsedTimeEl = <<"0", ":", "0", "0">>,
                       !.durationTimeEl = <<"0", ":", "0", "0">>,
                       !.progressWidth = [num |-> 0, den |-> 1]]

\* fetchNowPlayingInfo up to its await: the request is in flight, tagged
\* with the station selected when it was issued.
fetchNowPlayingInfo(r) ==
    [r EXCEPT !.fetches[r.currentStationShortcode] = @ + 1]

\* station is the station of the payload entry the baseline comes from.
startProgressTimer(r, lagAdjustedStartTime, duration, station) ==
    LET r1 == IF r.intervalId # NoId
              THEN [r EXCEPT !.progressTimers = Clear(@, r.intervalId)]
              ELSE r
        r2 == [r1 EXCEPT !.currentStartTime = lagAdjustedStartTime,
                         !.currentDuration = duration]
        r3 == updateProgress(r2, r2.now - r2.currentStartTime)
        id == FreshId(r3.progressTimers)
    IN  [r3 EXCEPT !.intervalId = id,
                   !.progressTimers = Schedule(@, id, station)]

\* The callback of the interval of line 125.
progressTick(r) ==
    LET elapsedApiTime == r.now - r.currentStartTime
        r1 == updateProgress(r, elapsedApiTime)
    IN  IF elapsedApiTime >= r1.currentDuration
           /\ elapsedApiTime > r1.currentDuration + 5
        THEN fetchNowPlayingInfo(r1)
        ELSE r1

stopProgressTimer(r) ==
    IF r.intervalId # NoId
    THEN [r EXCEPT !.progressTimers = Clear(@, r.intervalId),
                   !.intervalId = NoId]
    ELSE r

\* ------------------------------------------------------------ visualizer

\* setupAudioContextAndAnalyser without the guards of lines 157 and 161.
setupAudioContextAndAnalyser_Unguarded(r, ctxState) ==
    [r EXCEPT !.audioContext = ctxState,
              !.analyser = TRUE,
              !.created.audioContext = @ + 1,
              !.created.analyser = @ + 1]

\* ctxState is the state the browser gives a new AudioContext.
setupAudioContextAndAnalyser(r, ctxState) ==
    LET r1 == IF r.audioContext = Null
              THEN [r EXCEPT !.audioContext = ctxState,
                             !.created.audioContext = @ + 1]
              ELSE r
    IN  IF ~r1.analyser
        THEN [r1 EXCEPT !.analyser = TRUE, !.created.analyser = @ + 1]
        ELSE r1

stopPeakSampling(r) ==
    IF r.peakSamplingIntervalId # NoId
    THEN [r EXCEPT !.samplerTimers = Clear(@, r.peakSamplingIntervalId),
                   !.peakSamplingIntervalId = NoId]
    ELSE r

startPeakSampling(r) ==
    LET r1 == IF r.peakSamplingIntervalId # NoId
              THEN [r EXCEPT !.samplerTimers =
                                 Clear(@, r.peakSamplingIntervalId)]
              ELSE r
        id == FreshId(r1.samplerTimers)
    IN  [r1 EXCEPT !.waveformHistory = [i \in 1..TOTAL_BARS |-> 0],
                   !.peakSamplingIntervalId = id,
                   !.samplerTimers =
                       Schedule(@, id, r1.currentStationShortcode)]

\* halfBarHeight of line 202, in units of 1/12800 pixel:
\* (maxAmplitude / 128) * (VIS_H * 0.45).
HalfBarHeight(maxAmplitude) == maxAmplitude * VIS_H * 45

\* samplerTick without the check of lines 179-182.
samplerTick_NoSelfDisable(r, maxAmplitude) ==
    [r EXCEPT !.waveformHistory =
                  Append(IF Len(@) >= TOTAL_BARS THEN Tail(@) ELSE @,
                         HalfBarHeight(maxAmplitude))]

\* samplerTick without the shift of lines 205-207.
samplerTick_NoShift(r, maxAmplitude) ==
    IF ~r.analyser \/ ~r.isPlaying \/ r.audioContext = "suspended"
    THEN stopPeakSampling(r)
    ELSE [r EXCEPT !.waveformHistory =
                       Append(@, HalfBarHeight(maxAmplitude))]

\* The callback of the interval of line 178, reading a frame whose peak is
\* maxAmplitude.
samplerTick(r, maxAmplitude) ==
    IF ~r.analyser \/ ~r.isPlaying \/ r.audioContext = "suspended"
    THEN stopPeakSampling(r)
    ELSE LET shifted == IF Len(r.waveformHistory) >= TOTAL_BARS
                        THEN Tail(r.waveformHistory)
                        ELSE r.waveformHistory
         IN  [r EXCEPT !.waveformHistory =
                           Append(shifted, HalfBarHeight(maxAmplitude))]

drawCenterLine(r) == [r EXCEPT !.canvas = "center"]

\* drawVisualizer without the check of lines 252-256.
drawVisualizer_NoStopCheck(r) ==
    LET id == FreshId(r.frames)
    IN  [r EXCEPT !.animationFrameId = id,
                  !.frames = Schedule(@, id, r.currentStationShortcode),
                  !.canvas = "bars"]

drawVisualizer(r) ==
    LET id == FreshId(r.frames)
        r1 == [r EXCEPT !.animationFrameId = id,
                        !.frames = Schedule(@, id, r.currentStationShortcode)]
    IN  IF ~r1.isPlaying
        THEN [r1 EXCEPT !.frames = Clear(@, r1.animationFrameId)]
        ELSE [r1 EXCEPT !.canvas = "bars"]

\* ------------------------------------------------------------ media session

updateMediaSession(r) == [r EXCEPT !.mediaSession = "set"]

clearMediaSession(r) == [r EXCEPT !.mediaSession = Null]

\* ------------------------------------------------------------ reconciler

\* One entry of the payload as fetchNowPlayingInfo hands it on: a context
\* with its station.
StationData(shortcode, ctx) ==
    [isNull |-> FALSE,
     station |-> [present |-> TRUE, shortcode |-> shortcode],
     now_playing |-> ctx.now_playing,
     song_history |-> ctx.song_history,
     playing_next |-> ctx.playing_next]

\* Lines 403-418 reach the console.error of line 417: the time is before
\* now_playing's lag-adjusted start and song_history has no entry.
TimingMismatch(d, currentTimestampSec) ==
    /\ currentTimestampSec < d.now_playing.played_at + TIME_LAG_BUFFER
    /\ Len(d.song_history) = 0

\* SelectTrack without the comparison of line 412.
SelectTrack_StaleHistory(d, currentTimestampSec) ==
    LET nowStartTime == d.now_playing.played_at + TIME_LAG_BUFFER
        nowEndTime == nowStartTime + d.now_playing.duration
        lastHistory == IF Len(d.song_history) > 0
                       THEN d.song_history[1] ELSE NoTrack
    IN  IF currentTimestampSec < nowStartTime
        THEN IF lastHistory.present THEN lastHistory ELSE d.now_playing
        ELSE IF currentTimestampSec >= nowEndTime /\ d.playing_next.present
             THEN d.playing_next
             ELSE d.now_playing

\* SelectTrack with one comparison changed: line 403 with <=, line 412 with
\* >=, line 421 with >.
SelectTrackWith(d, currentTimestampSec, lateStart, earlyHistoryEnd, lateNext) ==
    LET nowStartTime == d.now_playing.played_at + TIME_LAG_BUFFER
        nowEndTime == nowStartTime + d.now_playing.duration
        lastHistory == IF Len(d.song_history) > 0
                       THEN d.song_history[1] ELSE NoTrack
        historyStartTime == lastHistory.played_at + TIME_LAG_BUFFER
        historyEndTime == historyStartTime + lastHistory.duration
    IN  IF currentTimestampSec < nowStartTime
           \/ (lateStart /\ currentTimestampSec = nowStartTime)
        THEN IF lastHistory.present
             THEN IF currentTimestampSec > historyEndTime
                     \/ (earlyHistoryEnd /\ currentTimestampSec = historyEndTime)
                  THEN d.now_playing
                  ELSE lastHistory
             ELSE d.now_playing
        ELSE IF /\ currentTimestampSec >= nowEndTime
                /\ ~(lateNext /\ currentTimestampSec = nowEndTime)
                /\ d.playing_next.present
             THEN d.playing_next
             ELSE d.now_playing

SelectTrack_LateStart(d, currentTimestampSec) ==
    SelectTrackWith(d, currentTimestampSec, TRUE, FALSE, FALSE)

SelectTrack_EarlyHistoryEnd(d, currentTimestampSec) ==
    SelectTrackWith(d, currentTimestampSec, FALSE, TRUE, FALSE)

SelectTrack_LateNext(d, currentTimestampSec) ==
    SelectTrackWith(d, currentTimestampSec, FALSE, FALSE, TRUE)

\* The track lines 395-423 leave in trackData at time currentTimestampSec.
SelectTrack(d, currentTimestampSec) ==
    LET nowStartTime == d.now_playing.played_at + TIME_LAG_BUFFER
        nowEndTime == nowStartTime + d.now_playing.duration
        lastHistory == IF Len(d.song_history) > 0
                       THEN d.song_history[1] ELSE NoTrack
        historyStartTime == lastHistory.played_at + TIME_LAG_BUFFER
        historyEndTime == historyStartTime + lastHistory.duration
    IN  IF currentTimestampSec < nowStartTime
        THEN IF lastHistory.present
             THEN IF currentTimestampSec > historyEndTime
                  THEN d.now_playing
                  ELSE lastHistory
             ELSE d.now_playing
        ELSE IF currentTimestampSec >= nowEndTime /\ d.playing_next.present
             THEN d.playing_next
             ELSE d.now_playing

\* updateNowPlayingInfo with line 403 comparing against the global
\* currentStartTime left by the previous call instead of nowStartTime.
updateNowPlayingInfo_ReadsBaseline(r, d) ==
    IF d.isNull \/ ~d.now_playing.present \/ ~d.station.present
    THEN clearMediaSession(stopProgressTimer(
             [r EXCEPT !.songTitle = "unavailable",
                       !.timingMismatch = FALSE]))
    ELSE LET nowEndTime == d.now_playing.played_at + TIME_LAG_BUFFER
                               + d.now_playing.duration
             lastHistory == IF Len(d.song_history) > 0
                            THEN d.song_history[1] ELSE NoTrack
             historyEndTime == lastHistory.played_at + TIME_LAG_BUFFER
                                   + lastHistory.duration
             trackData ==
                 IF r.now < r.currentStartTime
                 THEN IF lastHistory.present /\ r.now <= historyEndTime
                      THEN lastHistory
                      ELSE d.now_playing
                 ELSE IF r.now >= nowEndTime /\ d.playing_next.present
                      THEN d.playing_next
                      ELSE d.now_playing
             playedAt == trackData.played_at + TIME_LAG_BUFFER
             duration == trackData.duration
             r1 == [r EXCEPT !.songTitle = trackData.song,
                             !.timingMismatch = TimingMismatch(d, r.now),
                             !.reconciledAt =
                                 <<r.now>> \o SubSeq(@, 1, Min(Len(@), 1))]
         IN  startProgressTimer(updateMediaSession(r1), playedAt, duration,
                                d.station.shortcode)

\* updateNowPlayingInfo without the stopProgressTimer of line 390.
updateNowPlayingInfo_KeepsTimer(r, d) ==
    IF d.isNull \/ ~d.now_playing.present \/ ~d.station.present
    THEN clearMediaSession([r EXCEPT !.songTitle = "unavailable",
                                     !.timingMismatch = FALSE])
    ELSE LET trackData == SelectTrack(d, r.now)
             playedAt == trackData.played_at + TIME_LAG_BUFFER
             duration == trackData.duration
             r1 == [r EXCEPT !.songTitle = trackData.song,
                             !.timingMismatch = TimingMismatch(d, r.now),
                             !.reconciledAt =
                                 <<r.now>> \o SubSeq(@, 1, Min(Len(@), 1))]
         IN  startProgressTimer(updateMediaSession(r1), playedAt, duration,
                                d.station.shortcode)

updateNowPlayingInfo(r, d) ==
    IF d.isNull \/ ~d.now_playing.present \/ ~d.station.present
    THEN clearMediaSession(stopProgressTimer(
             [r EXCEPT !.songTitle = "unavailable",
                       !.timingMismatch = FALSE]))
    ELSE LET trackData == SelectTrack(d, r.now)
             playedAt == trackData.played_at + TIME_LAG_BUFFER
             duration == trackData.duration
             r1 == [r EXCEPT !.songTitle = trackData.song,
                             !.timingMismatch = TimingMismatch(d, r.now),
                             !.reconciledAt =
                                 <<r.now>> \o SubSeq(@, 1, Min(Len(@), 1))]
         IN  startProgressTimer(updateMediaSession(r1), playedAt, duration,
                                d.station.shortcode)

\* ------------------------------------------------------------ playback

stopAudio(r) ==
    LET r1 == IF r.audioSource.created THEN PauseElement(r) ELSE r
        r2 == [r1 EXCEPT !.isPlaying = FALSE]
        r3 == stopPeakSampling(clearMediaSession(r2))
        r4 == IF r3.animationFrameId # NoId
              THEN [r3 EXCEPT !.frames = Clear(@, r3.animationFrameId),
                              !.animationFrameId = NoId]
              ELSE r3
    IN  stopProgressTimer(drawCenterLine(r4))

\* playAudio up to its first await.  origin names the caller.
playAudio(r, origin, ctxState) ==
    IF ~Truthy(r.currentStreamUrl) THEN r
    ELSE
    LET r1 == setupAudioContextAndAnalyser(r, ctxState)
        r2 == IF ~r1.audioSource.created
              THEN [r1 EXCEPT !.audioSource.created = TRUE,
                              !.sourceNode = TRUE,
                              !.created.audioSource = @ + 1,
                              !.created.sourceNode = @ + 1]
              ELSE r1
        \* src assignment and load()
        r3 == [PauseElement(r2) EXCEPT !.audioSource.src = r2.currentStreamUrl]
        call == [stage |-> "resume", origin |-> origin,
                 target |-> r3.currentStationShortcode]
    IN  IF r3.audioContext = "suspended"
        THEN [r3 EXCEPT !.resumeQueued = TRUE,
                        !.calls = Append(@, call)]
        ELSE [r3 EXCEPT !.audioSource.paused = FALSE,
                        !.calls = Append(@, [call EXCEPT !.stage = "play"])]

\* playAudio after await audioContext.resume() resolved: line 576 calls
\* play() and awaits it.
playAudioResumed(r, i) ==
    [r EXCEPT !.audioSource.paused = FALSE, !.calls[i].stage = "play"]

\* The catch of lines 567-572.
playAudioResumeFailed(r) == [r EXCEPT !.songTitle = "error-audio-setup"]

\* playAudio after await audioSource.play() resolved: lines 577-587.
playAudioStarted(r) ==
    drawVisualizer(startPeakSampling([r EXCEPT !.isPlaying = TRUE]))

\* The catch of lines 589-596 without the message of line 591.
playAudioFailed_Silent(r) == [r EXCEPT !.isPlaying = FALSE]

\* The catch of lines 589-596.
playAudioFailed(r) ==
    [r EXCEPT !.songTitle = "error-play", !.isPlaying = FALSE]

\* The microtasks at the end of a task: the catch of every playAudio call
\* whose play() promise the task rejected.
RunMicrotasks(r) == IF r.rejected THEN playAudioFailed(r) ELSE r

\* switchStation with the playAudio of line 500 outside the check of
\* line 497.
switchStation_AlwaysPlays(r, shortcode, ctxState) ==
    LET found == {i \in 1..Len(r.availableStations) :
                    r.availableStations[i].shortcode = shortcode}
    IN  IF found = {} THEN r
        ELSE
        LET newStation == r.availableStations[CHOOSE i \in found :
                                                \A j \in found : i <= j]
            r1 == IF r.isPlaying \/ r.currentStationShortcode # shortcode
                  THEN stopAudio(r) ELSE r
            r2 == [r1 EXCEPT !.currentStationShortcode = shortcode,
                             !.currentStreamUrl = newStation.url]
        IN  playAudio(fetchNowPlayingInfo(r2), "switch", ctxState)

switchStation(r, shortcode, ctxState) ==
    LET found == {i \in 1..Len(r.availableStations) :
                    r.availableStations[i].shortcode = shortcode}
    IN  IF found = {} THEN r
        ELSE
        LET newStation == r.availableStations[CHOOSE i \in found :
                                                \A j \in found : i <= j]
            wasPlaying == r.isPlaying
            r1 == IF r.isPlaying \/ r.currentStationShortcode # shortcode
                  THEN stopAudio(r) ELSE r
            r2 == [r1 EXCEPT !.currentStationShortcode = shortcode,
                             !.currentStreamUrl = newStation.url]
            r3 == fetchNowPlayingInfo(r2)
        IN  IF wasPlaying THEN playAudio(r3, "switch", ctxState) ELSE r3

togglePlayPause(r, ctxState) ==
    IF r.isPlaying THEN stopAudio(r)
    ELSE LET r1 == IF r.currentStationShortcode = Null
                      /\ Len(r.availableStations) > 0
                   THEN fetchNowPlayingInfo(
                            [r EXCEPT !.currentStationShortcode =
                                          r.availableStations[1].shortcode,
                                      !.currentStreamUrl =
                                          r.availableStations[1].url])
                   ELSE r
         IN  IF Truthy(r1.currentStreamUrl)
             THEN playAudio(r1, "toggle", ctxState)
             ELSE r1

createStationButtons(r) ==
    IF Len(r.availableStations) > 0
    THEN fetchNowPlayingInfo(
             [r EXCEPT !.currentStationShortcode =
                           r.availableStations[1].shortcode,
                       !.currentStreamUrl = r.availableStations[1].url])
    ELSE r

\* init after await fetchData(): payload is what the API sent, ok tells
\* whether the request succeeded with an array.
initLoaded(r, ok, payload) ==
    IF ok
    THEN LET r1 == createStationButtons(
                       [r EXCEPT !.allStationsData = payload,
                                 !.availableStations =
                                     extractStations(payload)])
         IN  [r1 EXCEPT !.initPc = "ok",
                        !.pollTimers = Schedule(@, FreshId(@), Null)]
    ELSE [r EXCEPT !.initPc = "failed", !.songTitle = "api-unreachable"]

\* fetchNowPlayingInfo after await fetchData(): ok tells whether the request
\* succeeded, listed whether the payload lists the selected station.  The
\* first definition looks up the station the request was issued for instead
\* of the one selected now (line 452).
fetchNowPlayingInfoLoaded_RequestedStation(r, ok, listed) ==
    IF ok /\ r.requestedFor # Null /\ listed
    THEN LET stationData == StationData(r.requestedFor, r.data)
         IN  updateNowPlayingInfo(
                 [r EXCEPT !.delivered =
                               [stale |-> r.requestedFor
                                              # r.currentStationShortcode,
                                foreign |-> stationData.station.shortcode
                                                # r.currentStationShortcode]],
                 stationData)
    ELSE r

fetchNowPlayingInfoLoaded(r, ok, listed) ==
    IF ok /\ r.currentStationShortcode # Null /\ listed
    THEN LET stationData == StationData(r.currentStationShortcode, r.data)
         IN  updateNowPlayingInfo(
                 [r EXCEPT !.delivered =
                               [stale |-> r.requestedFor
                                              # r.currentStationShortcode,
                                foreign |-> stationData.station.shortcode
                                                # r.currentStationShortcode]],
                 stationData)
    ELSE r

\* ------------------------------------------------------------ behaviours

\* The page once the script has run to the await of init(): line 676 has
\* drawn the center line, the API serves ctx and the clock shows t.
Loading(ctx, t) ==
    [ initPc |-> "loading", availableStations |-> <<>>,
      audioSource |-> [created |-> FALSE, src |-> Null, paused |-> TRUE],
      isPlaying |-> FALSE, currentStationShortcode |-> Null,
      currentStreamUrl |-> Null, intervalId |-> NoId, currentDuration |-> 0,
      currentStartTime |-> 0, animationFrameId |-> NoId,
      audioContext |-> Null, analyser |-> FALSE, sourceNode |-> FALSE,
      peakSamplingIntervalId |-> NoId, waveformHistory |-> <<>>,
      songTitle |-> "initial", elapsedTimeEl |-> <<"0", ":", "0", "0">>,
      durationTimeEl |-> <<"0", ":", "0", "0">>,
      progressWidth |-> [num |-> 0, den |-> 1], canvas |-> "center",
      mediaSession |-> Null, progressTimers |-> {}, samplerTimers |-> {},
      frames |-> {}, pollTimers |-> {},
      fetches |-> [t2 \in StationTags |-> 0], calls |-> <<>>,
      resumeQueued |-> FALSE, data |-> ctx, now |-> t, ticks |-> 0,
      reconciledAt |-> <<>>,
      created |-> [audioContext |-> 0, analyser |-> 0,
                   audioSource |-> 0, sourceNode |-> 0],
      timingMismatch |-> FALSE, allStationsData |-> <<>>,
      delivered |-> [stale |-> FALSE, foreign |-> FALSE],
      requestedFor |-> Null, rejected |-> FALSE ]

\* The state r as an initial state.
Install(r) ==
    /\ initPc = r.initPc
    /\ availableStations = r.availableStations
    /\ audioSource = r.audioSource
    /\ isPlaying = r.isPlaying
    /\ currentStationShortcode = r.currentStationShortcode
    /\ currentStreamUrl = r.currentStreamUrl
    /\ intervalId = r.intervalId
    /\ currentDuration = r.currentDuration
    /\ currentStartTime = r.currentStartTime
    /\ animationFrameId = r.animationFrameId
    /\ audioContext = r.audioContext
    /\ analyser = r.analyser
    /\ sourceNode = r.sourceNode
    /\ peakSamplingIntervalId = r.peakSamplingIntervalId
    /\ waveformHistory = r.waveformHistory
    /\ songTitle = r.songTitle
    /\ elapsedTimeEl = r.elapsedTimeEl
    /\ durationTimeEl = r.durationTimeEl
    /\ progressWidth = r.progressWidth
    /\ canvas = r.canvas
    /\ mediaSession = r.mediaSession
    /\ progressTimers = r.progressTimers
    /\ samplerTimers = r.samplerTimers
    /\ frames = r.frames
    /\ pollTimers = r.pollTimers
    /\ fetches = r.fetches
    /\ calls = r.calls
    /\ resumeQueued = r.resumeQueued
    /\ data = r.data
    /\ now = r.now
    /\ ticks = r.ticks
    /\ reconciledAt = r.reconciledAt
    /\ created = r.created
    /\ timingMismatch = r.timingMismatch
    /\ allStationsData = r.allStationsData
    /\ delivered = r.delivered

Init == \E ctx \in SpecContexts : Install(Loading(ctx, Now0))

PendingFetches(r) ==
    LET RECURSIVE Sum(_)
        Sum(S) == IF S = {} THEN 0
                  ELSE LET x == CHOOSE y \in S : TRUE
                       IN  r.fetches[x] + Sum(S \ {x})
    IN  Sum(StationTags)

\* The bounds of the model: a handler runs only if what it leaves pending
\* fits them.
Bounded(r) ==
    /\ Len(r.calls) <= MaxCalls
    /\ PendingFetches(r) <= MaxFetch
    /\ Cardinality(r.frames) <= MaxFrames

\* A task: the handler's result, then its microtasks.
Task(r) == LET r1 == RunMicrotasks(r) IN Bounded(r1) /\ Commit(r1)

\* The state of a new AudioContext: suspended until the browser starts it.
\* The script never calls suspend(), so a running context stays running.
CtxStates == IF audioContext = Null THEN {"suspended", "running"}
             ELSE {audioContext}

InitLoaded ==
    /\ initPc = "loading"
    /\ \E ok \in BOOLEAN, payload \in {ApiStations, <<>>} :
           Task(initLoaded(Cur, ok, payload))

\* A click on #play-pause-btn.
TogglePlayPause == \E c \in CtxStates : Task(togglePlayPause(Cur, c))

\* A click on a station button; line 645 makes one per available station.
SwitchStation ==
    \E i \in 1..Len(availableStations), c \in CtxStates :
        Task(switchStation(Cur, availableStations[i].shortcode, c))

\* The media-session handlers of lines 317-323, installed with the metadata.
MediaSessionPlay ==
    /\ mediaSession = "set"
    /\ \E c \in CtxStates :
        LET r1 == IF audioContext # Null /\ audioContext = "suspended"
                  THEN [Cur EXCEPT !.resumeQueued = TRUE]
                  ELSE Cur
        IN  Task(IF ~r1.isPlaying THEN togglePlayPause(r1, c) ELSE r1)

MediaSessionPause ==
    /\ mediaSession = "set"
    /\ \E c \in CtxStates : Task(IF isPlaying THEN togglePlayPause(Cur, c) ELSE Cur)

HasCall(stage) == \E i \in 1..Len(calls) : calls[i].stage = stage

RECURSIVE ForEachResumed(_, _)
ForEachResumed(r, i) ==
    IF i > Len(r.calls) THEN r
    ELSE ForEachResumed(IF r.calls[i].stage = "resume"
                        THEN playAudioResumed(r, i) ELSE r, i + 1)

\* The audio context starts running: every resume() promise resolves, in
\* the order of the calls.
ResumeResolved ==
    /\ resumeQueued
    /\ audioContext = "suspended"
    /\ Task(ForEachResumed([Cur EXCEPT !.audioContext = "running",
                                       !.resumeQueued = FALSE], 1))

\* resume() rejects.
ResumeRejected ==
    /\ HasCall("resume")
    /\ Task(playAudioResumeFailed(
                [Cur EXCEPT !.resumeQueued = FALSE,
                            !.calls = SelectSeq(@, LAMBDA c : c.stage # "resume")]))

RECURSIVE ForEachStarted(_, _)
ForEachStarted(r, n) ==
    IF n = 0 THEN r ELSE ForEachStarted(playAudioStarted(r), n - 1)

\* Playback starts: the element resolves its pending play() promises.
PlayResolved ==
    /\ HasCall("play")
    /\ Task(ForEachStarted(
                [Cur EXCEPT !.calls = SelectSeq(@, LAMBDA c : c.stage # "play")],
                Len(SelectSeq(calls, LAMBDA c : c.stage = "play"))))

\* The platform refuses to play: the pending play() promises reject.
PlayRejected ==
    /\ HasCall("play")
    /\ Task([Cur EXCEPT !.audioSource.paused = TRUE,
                        !.rejected = TRUE,
                        !.calls = SelectSeq(@, LAMBDA c : c.stage # "play")])

\* The error event of the audio element (lines 551-556), while it loads or
\* plays a stream.
AudioError ==
    /\ audioSource.created
    /\ ~audioSource.paused
    /\ Task(stopAudio([Cur EXCEPT !.songTitle = "error-stream"]))

ProgressTick ==
    /\ progressTimers # {}
    /\ Task(progressTick(Cur))

SamplerTick ==
    /\ samplerTimers # {}
    /\ \E a \in Amplitudes : Task(samplerTick(Cur, a))

\* A render frame: the browser runs one pending callback.
FrameFire ==
    \E f \in frames : Task(drawVisualizer([Cur EXCEPT !.frames = @ \ {f}]))

\* The interval of line 685.
PollTick ==
    /\ pollTimers # {}
    /\ Task(fetchNowPlayingInfo(Cur))

FetchLoaded ==
    \E tag \in StationTags, ok \in BOOLEAN, listed \in BOOLEAN :
        /\ fetches[tag] > 0
        /\ Task(fetchNowPlayingInfoLoaded(
                    [Cur EXCEPT !.fetches[tag] = @ - 1,
                                !.requestedFor = tag], ok, listed))

\* The API moves on to another payload.
ApiUpdate == \E ctx \in SpecContexts : Task([Cur EXCEPT !.data = ctx])

ClockTick ==
    /\ ticks < MaxTicks
    /\ Task([Cur EXCEPT !.now = @ + 1, !.ticks = @ + 1])

Next ==
    \/ InitLoaded
    \/ TogglePlayPause
    \/ SwitchStation
    \/ MediaSessionPlay
    \/ MediaSessionPause
    \/ ResumeResolved
    \/ ResumeRejected
    \/ PlayResolved
    \/ PlayRejected
    \/ AudioError
    \/ ProgressTick
    \/ SamplerTick
    \/ FrameFire
    \/ PollTick
    \/ FetchLoaded
    \/ ApiUpdate

\* The playback state machine with the clock standing at Now0.
Spec == Init /\ [][Next]_vars

\* The reconciler and the progress timer alone: the page has loaded its
\* stations, nobody touches the controls, the API keeps serving one context
\* drawn from Contexts, and the clock starts anywhere in MinNow..MaxNow.
InitRecon ==
    \E ctx \in Contexts, t \in MinNow..MaxNow :
        Install(initLoaded(Loading(ctx, t), TRUE, ApiStations))

NextRecon ==
    \/ PollTick
    \/ FetchLoaded
    \/ ProgressTick
    \/ ClockTick

SpecRecon == InitRecon /\ [][NextRecon]_vars

\* The progress display alone: a baseline of duration d that started at
\* second 0 is in force, the clock shows t, and the display is refreshed
\* the way startProgressTimer and its interval refresh it.
FormatDurations == 1..MaxSeconds \cup {599, 600, 3599, 3600, 36000}

FormatNows == {0, 65, 40000}

InitFormat ==
    \E d \in FormatDurations, t \in FormatNows :
        Install([Loading(Context(NoTrack, <<>>, NoTrack), t)
                    EXCEPT !.currentDuration = d])

\* Lines 120-121 and 127-129: elapsed = floor(now - currentStartTime), then
\* updateProgress(elapsed).
UpdateProgress == Commit(updateProgress(Cur, now - currentStartTime))

NextFormat == UpdateProgress

SpecFormat == InitFormat /\ [][NextFormat]_vars

\* The contexts line 384 rejects: null, one without now_playing, one
\* without station.
MalformedData ==
    { [StationData(Null, Context(NoTrack, <<>>, NoTrack))
          EXCEPT !.isNull = TRUE, !.station.present = FALSE],
      StationData("s1", Context(NoTrack, <<>>, NoTrack)),
      [StationData(Null, Context(Track(20, 180, "N"), <<>>, NoTrack))
          EXCEPT !.station.present = FALSE] }

\* updateNowPlayingInfo called with a context that line 384 rejects.
UpdateNowPlayingInfo ==
    \E d \in MalformedData : Task(updateNowPlayingInfo(Cur, d))

NextContext == Next \/ UpdateNowPlayingInfo

\* The playback state machine, with updateNowPlayingInfo also handed the
\* contexts it rejects.
SpecContext == Init /\ [][NextContext]_vars

\* The seconds between two re-polls of line 685: the progress interval
\* fires and requests settle while the clock advances by at most MaxTicks,
\* under the browser's scheduling (a live interval fires again, a pending
\* request settles).
NextProgress ==
    \/ FetchLoaded
    \/ ProgressTick
    \/ ClockTick

\* A short now_playing without history, at times around the end of its
\* window and of the 5 s of grace.
ProgressContexts ==
    {Context(Track(20, d, "N"), <<>>, nx) : d \in {0, 20}, nx \in NextTracks}

InitProgress ==
    \E ctx \in ProgressContexts, t \in (MaxNow - 12)..MaxNow :
        Install(initLoaded(Loading(ctx, t), TRUE, ApiStations))

SpecProgress ==
    /\ InitProgress
    /\ [][NextProgress]_vars
    /\ WF_vars(ProgressTick)
    /\ WF_vars(FetchLoaded)

\* The platform suspends the running audio context (an interruption, a
\* page sent to the background), which lines 179 and 318 provide for.
ContextSuspended ==
    /\ audioContext = "running"
    /\ Task([Cur EXCEPT !.audioContext = "suspended"])

NextInterrupt ==
    \/ InitLoaded
    \/ TogglePlayPause
    \/ SwitchStation
    \/ MediaSessionPlay
    \/ MediaSessionPause
    \/ ResumeResolved
    \/ ResumeRejected
    \/ PlayResolved
    \/ PlayRejected
    \/ AudioError
    \/ SamplerTick
    \/ FrameFire
    \/ FetchLoaded
    \/ ContextSuspended

\* The playback state machine on a platform that may suspend the audio
\* context, within one poll period and with the API serving one context.
SpecInterrupt ==
    /\ Install(Loading(Context(Track(20, 180, "N"), <<>>, NoTrack), Now0))
    /\ [][NextInterrupt]_vars

\* Playback and the render loop under the browser's scheduling of frames (a
\* pending requestAnimationFrame callback is run), within one poll period
\* and with the API serving one context.  The sampler and progress
\* intervals, which drawVisualizer and stopAudio's frame handling neither
\* read nor write, do not tick.
NextRender ==
    \/ InitLoaded
    \/ TogglePlayPause
    \/ SwitchStation
    \/ ResumeResolved
    \/ ResumeRejected
    \/ PlayResolved
    \/ PlayRejected
    \/ AudioError
    \/ FrameFire
    \/ FetchLoaded

SpecRender ==
    /\ Install(Loading(Context(Track(20, 180, "N"), <<>>, NoTrack), Now0))
    /\ [][NextRender]_vars
    /\ WF_vars(FrameFire)

\* The station list alone: init() receives a payload of up to MaxStations
\* entries.  An entry has a listen_url or none, and mounts of which none
\* or one is flagged is_default, with or without a url.
StationKinds ==
    { [listen_url |-> "u1", mounts |-> <<>>],
      [listen_url |-> "u2", mounts |-> << [url |-> "m2", is_default |-> TRUE] >>],
      [listen_url |-> "",
       mounts |-> << [url |-> "m3a", is_default |-> FALSE],
                     [url |-> "m3", is_default |-> TRUE] >>],
      [listen_url |-> "", mounts |-> << [url |-> "m4", is_default |-> FALSE] >>],
      [listen_url |-> "", mounts |-> <<>>],
      [listen_url |-> "", mounts |-> << [url |-> "", is_default |-> TRUE] >>] }

Payloads ==
    UNION { { [i \in 1..n |-> [shortcode |-> ApiStations[i].shortcode,
                               listen_url |-> k[i].listen_url,
                               mounts |-> k[i].mounts]] :
              k \in [1..n -> StationKinds] } : n \in 0..MaxStations }

\* Lines 678-685 with a payload of Payloads.
InitStationsLoaded ==
    /\ initPc = "loading"
    /\ \E payload \in Payloads : Task(initLoaded(Cur, TRUE, payload))

NextStations == InitStationsLoaded

SpecStations == Init /\ [][NextStations]_vars

\* ------------------------------------------------------------ properties

UrlOf(shortcode) ==
    LET idx == {i \in 1..Len(availableStations) :
                  availableStations[i].shortcode = shortcode}
    IN  IF idx = {} THEN Null
        ELSE availableStations[CHOOSE i \in idx : TRUE].url

\* The restart that switchStation(s) began while playing completes: the
\* play() promise of its playAudio call resolves, s is still the selected
\* station and no other playAudio call is in flight.
RestartCompletes(s) ==
    /\ PlayResolved
    /\ currentStationShortcode = s
    /\ calls = << [stage |-> "play", origin |-> "switch", target |-> s] >>

\* One audio stream plays station s and every progress, sampler and render
\* timer was scheduled for s.
PlaysOnly(s) ==
    /\ isPlaying
    /\ audioSource.created /\ ~audioSource.paused
    /\ audioSource.src = UrlOf(s)
    /\ \A t \in progressTimers \cup samplerTimers \cup frames : t.station = s

\* C1: when the restart begun by switchStation(s) while playing completes,
\* one audio stream plays the URL of s, isPlaying is true, and no progress,
\* sampler or render timer of the previous station is left.
C1_SwitchWhilePlaying ==
    [][\A s \in StationTags : RestartCompletes(s) => PlaysOnly(s)']_vars

\* C2: at most one progress interval, one sampler interval, one pending
\* render frame and one re-poll interval are scheduled at any time.
C2_AtMostOneTimerOfEachKind ==
    /\ Cardinality(progressTimers) <= 1
    /\ Cardinality(samplerTimers) <= 1
    /\ Cardinality(frames) <= 1
    /\ Cardinality(pollTimers) <= 1

\* A step in which stopAudio runs: a pause, an audio error, or a station
\* switch that stops the audio.
StopAudioRuns ==
    \/ isPlaying /\ TogglePlayPause
    \/ isPlaying /\ MediaSessionPause
    \/ AudioError
    \/ \E i \in 1..Len(availableStations), c \in CtxStates :
          /\ isPlaying
             \/ currentStationShortcode # availableStations[i].shortcode
          /\ Task(switchStation(Cur, availableStations[i].shortcode, c))

\* C3: when stopAudio returns no sampler interval, render frame or progress
\* interval is scheduled, isPlaying is false, and the re-poll interval of
\* init is still scheduled.
C3_StopAudioCancelsPlaybackTimers ==
    [][StopAudioRuns =>
          /\ samplerTimers' = {}
          /\ frames' = {}
          /\ progressTimers' = {}
          /\ ~isPlaying'
          /\ pollTimers' # {}]_vars

\* ------------------------------------------------------------ reconciler

Reconciled == reconciledAt # <<>>

NowStart == data.now_playing.played_at + TIME_LAG_BUFFER

NowEnd == NowStart + data.now_playing.duration

HasHistory == Len(data.song_history) > 0

HistoryStart == data.song_history[1].played_at + TIME_LAG_BUFFER

HistoryEnd == HistoryStart + data.song_history[1].duration

\* The display and the baseline are those of track trk.
Shows(trk) ==
    /\ songTitle = trk.song
    /\ currentStartTime = trk.played_at + TIME_LAG_BUFFER
    /\ currentDuration = trk.duration

\* C4: a reconciliation at a time in [nowStart, nowEnd) selects now_playing,
\* whatever song_history and playing_next hold.
C4_WithinNowPlayingSelectsNowPlaying ==
    (Reconciled /\ NowStart <= reconciledAt[1] /\ reconciledAt[1] < NowEnd)
        => Shows(data.now_playing)

C4_Witness ==
    /\ Reconciled /\ NowStart <= reconciledAt[1] /\ reconciledAt[1] < NowEnd
    /\ HasHistory /\ reconciledAt[1] <= HistoryEnd
    /\ data.playing_next.present
    /\ Shows(data.now_playing)

\* C5: a reconciliation at a time before nowStart and within the history
\* head's lag-adjusted window selects the history head.
C5_BeforeNowPlayingSelectsHistoryHead ==
    (/\ Reconciled /\ HasHistory
     /\ reconciledAt[1] < NowStart
     /\ HistoryStart <= reconciledAt[1] /\ reconciledAt[1] <= HistoryEnd)
        => Shows(data.song_history[1])

C5_Witness ==
    /\ Reconciled /\ HasHistory
    /\ reconciledAt[1] < NowStart
    /\ HistoryStart < reconciledAt[1] /\ reconciledAt[1] < HistoryEnd
    /\ data.playing_next.present
    /\ Shows(data.song_history[1])

Reconciles ==
    /\ data.now_playing.present
    /\ \E tag \in StationTags :
          /\ fetches[tag] > 0
          /\ Task(fetchNowPlayingInfoLoaded(
                      [Cur EXCEPT !.fetches[tag] = @ - 1,
                                  !.requestedFor = tag], TRUE, TRUE))

\* The track of the context whose song the display names.
Selected(song) ==
    IF song = "N" THEN data.now_playing
    ELSE IF song = "H" THEN data.song_history[1]
    ELSE data.playing_next

BaselineOfSelected ==
    /\ songTitle \in {"N", "H", "X"}
    /\ currentStartTime = Selected(songTitle).played_at + TIME_LAG_BUFFER
    /\ currentDuration = Selected(songTitle).duration

\* The scenario of C7: now_playing = {played_at: T, duration: 180} and
\* now = T + 50.
Scenario ==
    /\ data.now_playing.present /\ data.now_playing.duration = 180
    /\ now = data.now_playing.played_at + 50

SameWindow(t1, t2) ==
    \/ \A t \in {t1, t2} : NowStart <= t /\ t < NowEnd
    \/ /\ HasHistory
       /\ \A t \in {t1, t2} :
              t < NowStart /\ HistoryStart <= t /\ t < HistoryEnd
    \/ \A t \in {t1, t2} : t >= NowEnd

\* C8: a second reconciliation of the same context at a time in the same
\* track window yields the same track and the same baseline as the first.
C8_SelectionIsIdempotent ==
    [][(Reconciles /\ Reconciled /\ SameWindow(reconciledAt[1], now)) =>
          /\ songTitle' = songTitle
          /\ currentStartTime' = currentStartTime
          /\ currentDuration' = currentDuration]_vars

C8_Witness ==
    /\ Len(reconciledAt) = 2
    /\ reconciledAt[2] < reconciledAt[1]
    /\ SameWindow(reconciledAt[2], reconciledAt[1])
    /\ songTitle = "H"

\* C16: at a time before now_playing's lag-adjusted start, the reconciler
\* selects now_playing and logs the timing mismatch when song_history is
\* empty, and selects now_playing when the time is past the history head's
\* lag-adjusted end.
C16_FallsBackToNowPlaying ==
    (Reconciled /\ reconciledAt[1] < NowStart) =>
        /\ ~HasHistory => Shows(data.now_playing) /\ timingMismatch
        /\ (HasHistory /\ reconciledAt[1] > HistoryEnd)
               => Shows(data.now_playing)

C16_Witness ==
    /\ Reconciled /\ reconciledAt[1] < NowStart
    /\ ~HasHistory
    /\ Shows(data.now_playing) /\ timingMismatch
    /\ progressTimers # {}

\* A progress tick that calls fetchNowPlayingInfo (line 135).
OutOfBandRepoll == ProgressTick /\ fetches' # fetches

\* C17: a progress tick re-polls exactly when floor(now - start) exceeds
\* duration + 5, and the re-polls issued for one stale baseline are bounded:
\* unless reconciliations keep installing baselines, from some point on no
\* tick re-polls.
C17_RepollIsBounded ==
    /\ [][ProgressTick =>
             (fetches' # fetches
                  <=> now - currentStartTime > currentDuration + 5)]_vars
    /\ \/ <>[][~OutOfBandRepoll]_vars
       \/ []<><<Reconciles>>_vars

\* ------------------------------------------------------------ display

\* A sampler tick that pushes a bar onto a full history.
PushesAtCapacity ==
    /\ SamplerTick
    /\ isPlaying /\ analyser /\ audioContext # "suspended"
    /\ Len(waveformHistory) >= TOTAL_BARS

\* C9: waveformHistory never holds more than TOTAL_BARS entries, and a tick
\* at capacity drops the head and appends the new bar at the tail.
C9_WaveformHistoryIsBounded ==
    /\ [](Len(waveformHistory) <= TOTAL_BARS)
    /\ [][PushesAtCapacity =>
             /\ Len(waveformHistory') = TOTAL_BARS
             /\ SubSeq(waveformHistory', 1, TOTAL_BARS - 1)
                    = Tail(waveformHistory)
             /\ \E a \in Amplitudes :
                    waveformHistory'[TOTAL_BARS] = HalfBarHeight(a)]_vars

C9_Witness ==
    /\ Len(waveformHistory) = TOTAL_BARS
    /\ waveformHistory[1] # 0
    /\ waveformHistory[TOTAL_BARS] = 0
    /\ isPlaying

\* C10: the percentage written to the progress bar lies in [0, 100], and a
\* zero state is shown when the duration is not positive.
C10_ProgressWithinBounds ==
    /\ 0 <= progressWidth.num
    /\ progressWidth.num <= 100 * progressWidth.den
    /\ (Reconciled /\ currentDuration <= 0)
           => progressWidth = [num |-> 0, den |-> 1]

\* ------------------------------------------------------------ formatTime

DigitValue(c) ==
    CASE c = "0" -> 0 [] c = "1" -> 1 [] c = "2" -> 2 [] c = "3" -> 3
      [] c = "4" -> 4 [] c = "5" -> 5 [] c = "6" -> 6 [] c = "7" -> 7
      [] c = "8" -> 8 [] c = "9" -> 9 [] OTHER -> 0 - 1

\* The number a string of decimal digits denotes, -1 when it is not one.
RECURSIVE ParseNat(_)
ParseNat(str) ==
    IF Len(str) = 0 \/ DigitValue(str[Len(str)]) < 0 THEN 0 - 1
    ELSE IF Len(str) = 1 THEN DigitValue(str[1])
    ELSE LET hi == ParseNat(SubSeq(str, 1, Len(str) - 1))
         IN  IF hi < 0 THEN 0 - 1 ELSE 10 * hi + DigitValue(str[Len(str)])

\* str reads floor(s / 60) in decimal without leading zeros, a colon, and
\* s mod 60 in exactly two digits.
IsFormatOf(str, s) ==
    /\ Len(str) >= 4
    /\ str[Len(str) - 2] = ":"
    /\ LET mins == SubSeq(str, 1, Len(str) - 3)
           secs == SubSeq(str, Len(str) - 1, Len(str))
       IN  /\ Len(mins) = 1 \/ mins[1] # "0"
           /\ ParseNat(mins) = s \div 60
           /\ DigitValue(secs[1]) >= 0
           /\ ParseNat(secs) = s % 60

\* C11: for a non-negative integer s, formatTime(s) is floor(s / 60), a
\* colon and s mod 60 in two digits; 0 gives "0:00", 65 gives "1:05" and
\* 3599 gives "59:59".
C11_FormatTime ==
    [][UpdateProgress =>
          /\ IsFormatOf(durationTimeEl', currentDuration)
          /\ IsFormatOf(elapsedTimeEl', Min(now, currentDuration))
          /\ now = 0 => elapsedTimeEl' = <<"0", ":", "0", "0">>
          /\ (now >= 65 /\ currentDuration = 65)
                 => elapsedTimeEl' = <<"1", ":", "0", "5">>
          /\ currentDuration = 3599
                 => durationTimeEl' = <<"5", "9", ":", "5", "9">>]_vars

C11_Witness ==
    /\ currentDuration = 3599 /\ now = 65
    /\ durationTimeEl = <<"5", "9", ":", "5", "9">>
    /\ elapsedTimeEl = <<"1", ":", "0", "5">>

\* ------------------------------------------------------------ audio graph

\* The audio objects that exist.
Exists ==
    [audioContext |-> audioContext # Null, analyser |-> analyser,
     audioSource |-> audioSource.created, sourceNode |-> sourceNode]

\* C12: the audio context, the analyser, the audio element and the source
\* node are each constructed at most once, and once one exists no step
\* removes it or constructs another.
C12_AudioGraphCreatedOnce ==
    /\ [](\A k \in DOMAIN created :
             created[k] = IF Exists[k] THEN 1 ELSE 0)
    /\ [][\A k \in DOMAIN created :
             Exists[k] => Exists'[k] /\ created'[k] = created[k]]_vars

\* A later playAudio, the restart of a station switch during playback, has
\* run on the objects the first one made.
C12_Witness ==
    /\ \E i \in 1..Len(calls) :
           calls[i].origin = "switch" /\ calls[i].target = "s2"
    /\ audioSource.src = UrlOf("s2")
    /\ \A k \in DOMAIN created : created[k] = 1

\* ------------------------------------------------------------ failures

\* A step in which updateNowPlayingInfo gets a context that is null, has no
\* now_playing or has no station: called with one (a call leaves the
\* requests, the play calls, the API and the visualizer as they are), or
\* handed the payload entry of a station that has no now_playing.
RejectsContext ==
    \/ /\ UNCHANGED <<fetches, calls, data, frames, waveformHistory>>
       /\ UpdateNowPlayingInfo
    \/ /\ ~data.now_playing.present
       /\ currentStationShortcode # Null
       /\ \E tag \in StationTags :
             /\ fetches[tag] > 0
             /\ Task(fetchNowPlayingInfoLoaded(
                         [Cur EXCEPT !.fetches[tag] = @ - 1,
                                     !.requestedFor = tag], TRUE, TRUE))

\* C13: given a context that is null or lacks now_playing or station,
\* updateNowPlayingInfo shows the placeholder, stops the progress timer,
\* clears the media session, and leaves isPlaying, the selected station and
\* the stream URL alone.
C13_MalformedContextIsNonFatal ==
    [][RejectsContext =>
          /\ songTitle' = "unavailable"
          /\ intervalId' = NoId /\ progressTimers' = {}
          /\ mediaSession' = Null
          /\ isPlaying' = isPlaying
          /\ currentStationShortcode' = currentStationShortcode
          /\ currentStreamUrl' = currentStreamUrl]_vars

\* The placeholder is shown during playback, after a track of 3:00 had its
\* progress timer running.
C13_Witness ==
    /\ songTitle = "unavailable"
    /\ isPlaying
    /\ durationTimeEl = <<"3", ":", "0", "0">>
    /\ intervalId = NoId /\ progressTimers = {}
    /\ mediaSession = Null

\* What the handlers that call pause() or load() make of the current state:
\* the two clicks, the media-session actions and the audio error event.
HandlerResults ==
    {togglePlayPause(Cur, c) : c \in CtxStates}
    \cup {switchStation(Cur, availableStations[i].shortcode, c) :
              i \in 1..Len(availableStations), c \in CtxStates}
    \cup (IF mediaSession = "set"
          THEN {IF isPlaying THEN Cur ELSE
                    togglePlayPause(
                        [Cur EXCEPT !.resumeQueued =
                                        @ \/ audioContext = "suspended"], c) :
                    c \in CtxStates}
          ELSE {})
    \cup (IF audioSource.created /\ ~audioSource.paused
          THEN {stopAudio([Cur EXCEPT !.songTitle = "error-stream"])}
          ELSE {})

\* A step in which a play attempt fails: the platform rejects play() or
\* resume(), or a handler's pause() or load() rejects a pending play() of
\* the playing element.
PlayAttemptFails ==
    \/ PlayRejected
    \/ ResumeRejected
    \/ /\ HasCall("play")
       /\ ~audioSource.paused
       /\ \E r \in HandlerResults : r.rejected /\ Task(r)

\* C14: when a play attempt fails the player is stopped: isPlaying is
\* false, an error message is shown, and no sampler interval or render
\* frame has been started.
C14_PlayFailureLeavesStopped ==
    [][PlayAttemptFails =>
          /\ ~isPlaying'
          /\ songTitle' \in {"error-play", "error-audio-setup"}
          /\ samplerTimers' \subseteq samplerTimers
          /\ frames' \subseteq frames]_vars

\* play() was rejected for a station switch's restart.
C14_Witness ==
    /\ songTitle = "error-play"
    /\ ~isPlaying
    /\ calls = <<>>
    /\ currentStationShortcode = "s2"
    /\ audioSource.src = UrlOf("s2")
    /\ samplerTimers = {}

\* A click on the play button or on a station button would issue a fetch
\* or a play attempt.
UserCanRetry ==
    \E r \in {togglePlayPause(Cur, c) : c \in CtxStates}
             \cup {switchStation(Cur, availableStations[i].shortcode, c) :
                       i \in 1..Len(availableStations), c \in CtxStates} :
        \/ PendingFetches(r) > PendingFetches(Cur)
        \/ Len(r.calls) > Len(calls)

\* C15: no error halts the session: once init has finished, with or without
\* data, a re-poll is scheduled or a user action can still trigger a fetch
\* or a play attempt.
C15_NoErrorHaltsSession ==
    initPc # "loading" => pollTimers # {} \/ UserCanRetry

\* ------------------------------------------------------------ loops

\* A sampler tick while playback is not active or the context is suspended.
InactiveTick ==
    /\ SamplerTick
    /\ ~isPlaying \/ audioContext = "suspended"

C19_RenderLoopStopsWithPlayback ==
    /\ [](~isPlaying => canvas = "center")
    /\ [][(FrameFire /\ ~isPlaying) =>
             /\ canvas' = canvas
             /\ frames' \subseteq frames /\ frames' # frames]_vars
    /\ ~isPlaying ~> (frames = {} \/ isPlaying)

\* Playback was stopped while bars were shown and every pending frame has
\* run out.
C19_Witness ==
    /\ ~isPlaying
    /\ canvas = "center"
    /\ frames = {}
    /\ audioSource.created /\ audioSource.paused
    /\ Len(waveformHistory) = TOTAL_BARS

\* ------------------------------------------------------------ selection

\* Station s has just been selected without starting audio: it is the
\* selected station with its stream URL, one more fetch is pending for it,
\* isPlaying is false and no playAudio call, sampler or frame was added.
SelectedOnly(s) ==
    /\ currentStationShortcode' = s
    /\ currentStreamUrl' = UrlOf(s)'
    /\ fetches'[s] = fetches[s] + 1
    /\ ~isPlaying'
    /\ Len(calls') <= Len(calls)
    /\ samplerTimers' \subseteq samplerTimers
    /\ frames' \subseteq frames

\* C20: the selection of the first station on load, and switchStation while
\* isPlaying is false, select the station and its stream URL and issue a
\* fetch without starting audio; and as long as playAudio has never run,
\* isPlaying is false and no sampler or render loop exists.
C20_SelectionDoesNotStartAudio ==
    /\ [][\A s \in StationTags :
             (/\ InitLoaded
              /\ Len(availableStations') > 0
              /\ availableStations'[1].shortcode = s) => SelectedOnly(s)]_vars
    /\ [][\A i \in 1..Len(availableStations), c \in CtxStates :
             (/\ ~isPlaying
              /\ Task(switchStation(Cur, availableStations[i].shortcode, c)))
                 => SelectedOnly(availableStations[i].shortcode)]_vars
    /\ [](created.audioSource = 0 =>
              /\ ~isPlaying /\ calls = <<>>
              /\ samplerTimers = {} /\ frames = {})

\* s2 was picked before any playback.
C20_Witness ==
    /\ currentStationShortcode = "s2"
    /\ currentStreamUrl = UrlOf("s2")
    /\ fetches["s2"] > 0
    /\ ~isPlaying
    /\ created.audioSource = 0

\* ------------------------------------------------------------ stations

HasListenUrl(st) == st.listen_url # ""

HasDefaultMountUrl(st) ==
    \E i \in 1..Len(st.mounts) :
        st.mounts[i].is_default /\ st.mounts[i].url # ""

\* u is the URL the station entry st resolves to.
ResolvesTo(st, u) ==
    IF HasListenUrl(st) THEN u = st.listen_url
    ELSE \E i \in 1..Len(st.mounts) :
             st.mounts[i].is_default /\ u = st.mounts[i].url

\* The entries of the payload that have a listen_url or a default mount
\* with a url.
Resolvable ==
    {i \in 1..Len(allStationsData) :
        HasListenUrl(allStationsData[i]) \/ HasDefaultMountUrl(allStationsData[i])}

\* C21: once init() has received the payload, the selectable stations are
\* exactly its entries that have a listen_url or a default mount with a url,
\* in the payload's order, each with its listen_url if it has one and else
\* with the url of its default mount.
C21_ExtractStations ==
    initPc = "ok" =>
        \E f \in [1..Len(availableStations) -> 1..Len(allStationsData)] :
            /\ \A j, k \in DOMAIN f : j < k => f[j] < f[k]
            /\ {f[k] : k \in DOMAIN f} = Resolvable
            /\ \A k \in DOMAIN f :
                   /\ availableStations[k].shortcode = allStationsData[f[k]].shortcode
                   /\ ResolvesTo(allStationsData[f[k]], availableStations[k].url)

\* A payload of three entries whose first has a listen_url and a default
\* mount, whose second resolves to nothing and whose third has only a
\* default mount: two stations are selectable.
C21_Witness ==
    /\ initPc = "ok"
    /\ Len(allStationsData) = 3
    /\ HasListenUrl(allStationsData[1]) /\ HasDefaultMountUrl(allStationsData[1])
    /\ 2 \notin Resolvable
    /\ ~HasListenUrl(allStationsData[3]) /\ 3 \in Resolvable
    /\ Len(availableStations) = 2
    /\ availableStations[2].shortcode = allStationsData[3].shortcode

\* ------------------------------------------------------------ stream

\* C22: whenever isPlaying is true, the audio element's src is
\* currentStreamUrl, the stream URL of the selected station.
C22_PlaysSelectedStream ==
    isPlaying => audioSource.src = currentStreamUrl

\* ------------------------------------------------------------ responses

\* The progress timer the script tracks.
TrackedProgressTimers == {t \in progressTimers : t.id = intervalId}

\* C23: every call of updateNowPlayingInfo from fetchNowPlayingInfo is made
\* with the payload entry of the station selected at the call, also when the
\* request was issued for another station; the baseline in force therefore
\* comes from the selected station's entry.
C23_ReconciledAgainstSelectedStation ==
    /\ ~delivered.foreign
    /\ \A t \in TrackedProgressTimers : t.station = currentStationShortcode

\* The response to a request issued while s1 was selected has arrived with
\* s2 selected, and the baseline installed is that of s2's entry.
C23_Witness ==
    /\ delivered.stale
    /\ currentStationShortcode = "s2"
    /\ fetches["s1"] = 0
    /\ \E t \in TrackedProgressTimers : t.station = "s2"

====
